---- MODULE Spec2Model ----
(***************************************************************************)
(* Model of the DNS rule compiler of v2ray-core:                           *)
(*   - common/strmatcher/matchers.go : the string matcher strategies       *)
(*   - package conf, DnsConfig.Build and its helpers : the rule-set builder*)
(* A Go string is modelled as a sequence of one-character strings, so      *)
(* that prefix tests, slicing, splitting, sorting and case conversion are  *)
(* computed, not assumed.                                                  *)
(***************************************************************************)
EXTENDS Naturals, Sequences, FiniteSets

VARIABLES matcher, candidate, outcome, c, geositeDB, ret, prevRet

vars == <<matcher, candidate, outcome, c, geositeDB, ret, prevRet>>

(***************************************************************************)
(* Bounds of the model.                                                    *)
(***************************************************************************)
MaxLen == 2
MaxPatLen == 2
MaxHosts == 2
MaxFake == 2
MaxServers == 1

(***************************************************************************)
(* Go string primitives (package strings, slicing, byte comparison).       *)
(***************************************************************************)
Lower == <<"a","b","c","d","e","f","g","h","i","j","k","l","m",
           "n","o","p","q","r","s","t","u","v","w","x","y","z">>
Upper == <<"A","B","C","D","E","F","G","H","I","J","K","L","M",
           "N","O","P","Q","R","S","T","U","V","W","X","Y","Z">>

Range(seq) == {seq[i] : i \in 1..Len(seq)}

IndexIn(ch, alphabet) == CHOOSE i \in 1..Len(alphabet) : alphabet[i] = ch

IsLower(ch) == \E i \in 1..Len(Lower) : Lower[i] = ch
IsUpper(ch) == \E i \in 1..Len(Upper) : Upper[i] = ch

\* The byte value of a character (ASCII).
CharCodes ==
    [ch \in Range(Lower) \cup Range(Upper) \cup {".", ":"} |->
        IF IsLower(ch) THEN 96 + IndexIn(ch, Lower)
        ELSE IF IsUpper(ch) THEN 64 + IndexIn(ch, Upper)
        ELSE IF ch = "." THEN 46
        ELSE 58]

CharCode(ch) == CharCodes[ch]

HasPrefix(s, prefix) ==
    /\ Len(prefix) <= Len(s)
    /\ SubSeq(s, 1, Len(prefix)) = prefix

HasSuffix(s, suffix) ==
    /\ Len(suffix) <= Len(s)
    /\ SubSeq(s, Len(s) - Len(suffix) + 1, Len(s)) = suffix

Contains(s, substr) ==
    \E i \in 0..Len(s) :
        /\ i + Len(substr) <= Len(s)
        /\ SubSeq(s, i + 1, i + Len(substr)) = substr

\* s[n:] with n a zero-based byte offset
SliceFrom(s, n) == SubSeq(s, n + 1, Len(s))

ToUpperChar(ch) == IF IsLower(ch) THEN Upper[IndexIn(ch, Lower)] ELSE ch

ToUpper(s) == [i \in 1..Len(s) |-> ToUpperChar(s[i])]

\* strings.Split(s, sep) for a one-character separator: the pieces between
\* all occurrences of sep (one piece more than there are separators).
RECURSIVE SplitFrom(_, _, _)
SplitFrom(s, sep, cur) ==
    IF s = <<>> THEN <<cur>>
    ELSE IF Head(s) = sep THEN <<cur>> \o SplitFrom(Tail(s), sep, <<>>)
    ELSE SplitFrom(Tail(s), sep, Append(cur, Head(s)))

Split(s, sep) == SplitFrom(s, sep, <<>>)

\* Go's < on strings: byte-wise lexicographic order.
RECURSIVE StrLess(_, _)
StrLess(a, b) ==
    IF b = <<>> THEN FALSE
    ELSE IF a = <<>> THEN TRUE
    ELSE IF CharCode(Head(a)) < CharCode(Head(b)) THEN TRUE
    ELSE IF CharCode(Head(a)) > CharCode(Head(b)) THEN FALSE
    ELSE StrLess(Tail(a), Tail(b))

\* sort.Strings: the ascending arrangement of the slice's strings.
RECURSIVE SortSet(_)
SortSet(S) ==
    IF S = {} THEN <<>>
    ELSE LET least == CHOOSE x \in S : \A y \in S \ {x} : StrLess(x, y)
         IN  <<least>> \o SortSet(S \ {least})

unsortedStrings(domains) == domains

sortStrings(domains) == SortSet(Range(domains))

RECURSIVE StringsUpTo(_, _)
StringsUpTo(alphabet, n) ==
    IF n = 0 THEN {<<>>}
    ELSE LET shorter == StringsUpTo(alphabet, n - 1)
         IN  shorter \cup {Append(s, ch) : s \in shorter, ch \in alphabet}

(***************************************************************************)
(* strmatcher: the matcher strategies.  A matcher is a tagged tuple;       *)
(* Match returns the verdict together with the sequence of leaf matchers   *)
(* whose Match method ran, in call order.                                  *)
(***************************************************************************)
Full(v) == <<"full", v>>
Substring(v) == <<"substr", v>>
Domain(v) == <<"domain", v>>
Not(m) == <<"not", m>>
And(a, b) == <<"and", a, b>>

fullMatcherMatch(m, s) == m = s

substrMatcherMatch(m, s) == Contains(s, m)

domainMatcherNoBoundary(m, s) == HasSuffix(s, m)

domainMatcherMatch(m, s) ==
    IF ~HasSuffix(s, m) THEN FALSE
    ELSE Len(s) = Len(m) \/ s[Len(s) - Len(m)] = "."

notMatcherKeep(inner) == [res |-> inner.res, calls |-> inner.calls]

notMatcherMatch(inner) == [res |-> ~inner.res, calls |-> inner.calls]

RECURSIVE Match(_, _)
andMatcherMatch(a, b, s) ==
    LET ra == Match(a, s)
    IN  IF ~ra.res THEN [res |-> FALSE, calls |-> ra.calls]
        ELSE LET rb == Match(b, s)
             IN  [res |-> rb.res, calls |-> ra.calls \o rb.calls]

Match(m, s) ==
    IF m[1] = "full" THEN [res |-> fullMatcherMatch(m[2], s), calls |-> <<m>>]
    ELSE IF m[1] = "substr" THEN [res |-> substrMatcherMatch(m[2], s), calls |-> <<m>>]
    ELSE IF m[1] = "domain" THEN [res |-> domainMatcherMatch(m[2], s), calls |-> <<m>>]
    ELSE IF m[1] = "not" THEN notMatcherMatch(Match(m[2], s))
    ELSE andMatcherMatch(m[2], m[3], s)

(***************************************************************************)
(* conf: DnsConfig.Build and its helpers.                                  *)
(***************************************************************************)
\* A nil error, and the errors newError creates (by their message).
NoErr == ""
ErrNotIP == "not an IP address"
ErrNameServer == "failed to build name server"
ErrInvalidGeosite == "invalid geosite settings"
ErrInvalidExternalResource == "invalid external resource"
ErrInvalidExternalSettings == "invalid external settings"
ErrLoadDomains == "failed to load domains"
ErrLoadGeosite == "geosite list or tag not found"

\* A nil *dns.Config, and the return value before Build has run.
NilConfig == [nil |-> TRUE]
NotRun == [pending |-> TRUE]

\* A nil *Address.
NilAddress == [fam |-> "nil", val |-> ""]

GeositeFile == <<"g","e","o","s","i","t","e",".","d","a","t">>

DomainPrefix == <<"d","o","m","a","i","n",":">>
RegexpPrefix == <<"r","e","g","e","x","p",":">>
KeywordPrefix == <<"k","e","y","w","o","r","d",":">>
FullPrefix == <<"f","u","l","l",":">>
GeositePrefix == <<"g","e","o","s","i","t","e",":">>
ExtPrefix == <<"e","x","t",":">>
GeoipPrefix == <<"g","e","o","i","p",":">>

\* var prefixMapper: the set of (prefix, cmd) pairs of the Go map.
prefixMapper ==
    { <<DomainPrefix, <<"d">>>>,
      <<RegexpPrefix, <<"r">>>>,
      <<KeywordPrefix, <<"k">>>>,
      <<FullPrefix, <<"f">>>>,
      <<GeositePrefix, <<"e">> \o GeositeFile \o <<":">>>>,
      <<ExtPrefix, <<"e">>>>,
      <<GeoipPrefix, <<"i">>>> }

\* var typeMapper: router.Domain_Type -> kind letter.
typeMapper(t) ==
    IF t = "Domain_Full" THEN <<"f">>
    ELSE IF t = "Domain_Domain" THEN <<"d">>
    ELSE IF t = "Domain_Plain" THEN <<"k">>
    ELSE IF t = "Domain_Regex" THEN <<"r">>
    ELSE <<>>

\* var typeMap: router.Domain_Type -> dns.DomainMatchingType.
typeMap(t) ==
    IF t = "Domain_Full" THEN "Full"
    ELSE IF t = "Domain_Domain" THEN "Subdomain"
    ELSE IF t = "Domain_Plain" THEN "Keyword"
    ELSE IF t = "Domain_Regex" THEN "Regex"
    ELSE "Full"

\* compressPattern ranges over the map in an order Go leaves unspecified and
\* returns at the first prefix that matches: every matching entry's result
\* is a possible outcome.
compressOutcomes(pattern) ==
    LET hits == {e \in prefixMapper : HasPrefix(pattern, e[1])}
    IN  IF hits = {} THEN {<<"f">> \o pattern}
        ELSE {e[2] \o SliceFrom(pattern, Len(e[1])) : e \in hits}

compressPattern(pattern) == CHOOSE r \in compressOutcomes(pattern) : TRUE

\* loadGeositeWithAttr is the external list resolver: geositeDB holds the
\* lists it knows, keyed by <<filename, tag>>.
loadGeositeWithAttr(filename, country) ==
    IF <<filename, country>> \in DOMAIN geositeDB
    THEN [domains |-> geositeDB[<<filename, country>>], err |-> NoErr]
    ELSE [domains |-> <<>>, err |-> ErrLoadGeosite]

\* map assignment m[k] = v
MapPut(m, k, v) == [x \in (DOMAIN m) \cup {k} |-> IF x = k THEN v ELSE m[x]]

EmptyMap == [x \in {} |-> <<>>]

externPatternsNoKind(domains) ==
    [i \in 1..Len(domains) |-> domains[i].Value]

externPatterns(domains) ==
    [i \in 1..Len(domains) |-> typeMapper(domains[i].Type) \o domains[i].Value]

loadExternalRules(pattern, config) ==
    IF pattern[1] # "e" THEN [err |-> NoErr, config |-> config]
    ELSE LET arg == SliceFrom(pattern, 1)
             kv == Split(arg, ":")
         IN  IF Len(kv) # 2
             THEN [err |-> ErrInvalidExternalResource, config |-> config]
             ELSE LET loaded == loadGeositeWithAttr(kv[1], kv[2])
                  IN  IF loaded.err # NoErr
                      THEN [err |-> ErrInvalidExternalSettings, config |-> config]
                      ELSE [err |-> NoErr,
                            config |-> [config EXCEPT !.ExternalRules =
                                MapPut(@, arg, externPatterns(loaded.domains))]]

\* getHostMapping: Type and Pattern are left at their zero values.
getHostMapping(addr) ==
    IF addr.fam = "ip"
    THEN [Type |-> "Full", Pattern |-> <<>>, Ip |-> <<addr.val>>, ProxiedDomain |-> ""]
    ELSE [Type |-> "Full", Pattern |-> <<>>, Ip |-> <<>>, ProxiedDomain |-> addr.val]

getHostPattern(addr, pattern, config) ==
    LET item == [getHostMapping(addr) EXCEPT !.Pattern = compressPattern(pattern)]
        loaded == loadExternalRules(item.Pattern, config)
    IN  IF loaded.err = NoErr
        THEN [loaded.config EXCEPT !.HostRules = Append(@, item)]
        ELSE loaded.config

(***************************************************************************)
(* NameServerConfig.Build.  parseDomainRule and toCidrList are collaborators*)
(* outside these files: they are modelled by the inputs they reject.       *)
(***************************************************************************)
RejectedDomainRules == {"regexp:("}
RejectedIPRules == {"not-a-cidr"}

parseDomainRule(d) ==
    IF d \in RejectedDomainRules
    THEN [domains |-> <<>>, err |-> "invalid domain rule"]
    ELSE [domains |-> <<[Type |-> "Domain_Domain", Value |-> d]>>, err |-> NoErr]

toCidrList(ips) ==
    IF \E i \in 1..Len(ips) : ips[i] \in RejectedIPRules
    THEN [list |-> <<>>, err |-> "invalid ip rule"]
    ELSE [list |-> ips, err |-> NoErr]

toDomainMatchingType(t) == typeMap(t)

RECURSIVE parseDomains(_, _, _)
parseDomains(Domains, i, acc) ==
    IF i > Len(Domains) THEN [domains |-> acc, err |-> NoErr]
    ELSE LET parsed == parseDomainRule(Domains[i])
         IN  IF parsed.err # NoErr THEN [domains |-> <<>>, err |-> parsed.err]
             ELSE parseDomains(Domains, i + 1,
                    acc \o [k \in 1..Len(parsed.domains) |->
                              [Type |-> toDomainMatchingType(parsed.domains[k].Type),
                               Domain |-> parsed.domains[k].Value]])

NilNameServer == [nil |-> TRUE]

NameServerConfigBuild(server) ==
    IF server.Address = NilAddress
    THEN [ns |-> NilNameServer, err |-> "NameServer address is not specified."]
    ELSE LET pd == parseDomains(server.Domains, 1, <<>>)
         IN  IF pd.err # NoErr THEN [ns |-> NilNameServer, err |-> pd.err]
             ELSE LET geoipList == toCidrList(server.ExpectIPs)
                  IN  IF geoipList.err # NoErr
                      THEN [ns |-> NilNameServer, err |-> geoipList.err]
                      ELSE [ns |-> [Address |-> [Network |-> "UDP",
                                                 Address |-> server.Address,
                                                 Port |-> server.Port],
                                    PrioritizedDomain |-> pd.domains,
                                    Geoip |-> geoipList.list],
                            err |-> NoErr]

(***************************************************************************)
(* DnsConfig.Build, section by section.  Every section takes the config    *)
(* built so far and yields Build's return pair if it returns there.        *)
(***************************************************************************)
ReturnErr(err) == [config |-> NilConfig, err |-> err]
Continue(config) == [config |-> config, err |-> NoErr]

NoFakeOut == [present |-> FALSE, FakeNet |-> "", rulesNil |-> TRUE, FakeRules |-> <<>>]

NewConfig ==
    [Tag |-> c.Tag, ClientIp |-> <<>>, NameServer |-> <<>>, HostRules |-> <<>>,
     StaticHosts |-> <<>>, ExternalRules |-> EmptyMap, Fake |-> NoFakeOut]

BuildClientIP(config) ==
    IF c.ClientIP # NilAddress
    THEN IF c.ClientIP.fam # "ip" THEN ReturnErr(ErrNotIP)
         ELSE Continue([config EXCEPT !.ClientIp = <<c.ClientIP.val>>])
    ELSE Continue(config)

RECURSIVE BuildServers(_, _)
BuildServers(i, config) ==
    IF i > Len(c.Servers) THEN Continue(config)
    ELSE LET built == NameServerConfigBuild(c.Servers[i])
         IN  IF built.err # NoErr THEN ReturnErr(ErrNameServer)
             ELSE BuildServers(i + 1, [config EXCEPT !.NameServer = Append(@, built.ns)])

\* for pattern, address := range c.Hosts { ...; getHostPattern(...) }
\* order is the order in which the range statement visits the map's keys.
RECURSIVE HostPatternLoop(_, _, _)
HostPatternLoop(order, i, config) ==
    IF i > Len(order) THEN config
    ELSE HostPatternLoop(order, i + 1, getHostPattern(c.Hosts[order[i]], order[i], config))

WithKind(addr, kind, pattern) ==
    [getHostMapping(addr) EXCEPT !.Type = kind, !.Pattern = pattern]

expandDomains(addr, domains) ==
    [i \in 1..Len(domains) |-> WithKind(addr, typeMap(domains[i].Type), domains[i].Value)]

\* The geosite: branch of the sorted loop.
geositeMappings(domain, addr) ==
    LET loaded == loadGeositeWithAttr(GeositeFile, ToUpper(SliceFrom(domain, 8)))
    IN  IF loaded.err # NoErr THEN [mappings |-> <<>>, err |-> ErrInvalidGeosite]
        ELSE [mappings |-> expandDomains(addr, loaded.domains), err |-> NoErr]

extMappingsSkipMalformed(domain, addr) ==
    LET kv == Split(SliceFrom(domain, 4), ":")
    IN  IF Len(kv) # 2 THEN [mappings |-> <<>>, err |-> NoErr]
        ELSE LET loaded == loadGeositeWithAttr(kv[1], kv[2])
             IN  IF loaded.err # NoErr THEN [mappings |-> <<>>, err |-> ErrLoadDomains]
                 ELSE [mappings |-> expandDomains(addr, loaded.domains), err |-> NoErr]

\* The ext: branch of the sorted loop.
extMappings(domain, addr) ==
    LET kv == Split(SliceFrom(domain, 4), ":")
    IN  IF Len(kv) # 2 THEN [mappings |-> <<>>, err |-> ErrInvalidExternalResource]
        ELSE LET loaded == loadGeositeWithAttr(kv[1], kv[2])
             IN  IF loaded.err # NoErr THEN [mappings |-> <<>>, err |-> ErrLoadDomains]
                 ELSE [mappings |-> expandDomains(addr, loaded.domains), err |-> NoErr]

\* The if/else-if chain of the sorted loop: the mappings of one key.
hostMappings(domain, addr) ==
    IF HasPrefix(domain, DomainPrefix)
    THEN [mappings |-> <<WithKind(addr, "Subdomain", SliceFrom(domain, 7))>>, err |-> NoErr]
    ELSE IF HasPrefix(domain, GeositePrefix) THEN geositeMappings(domain, addr)
    ELSE IF HasPrefix(domain, RegexpPrefix)
    THEN [mappings |-> <<WithKind(addr, "Regex", SliceFrom(domain, 7))>>, err |-> NoErr]
    ELSE IF HasPrefix(domain, KeywordPrefix)
    THEN [mappings |-> <<WithKind(addr, "Keyword", SliceFrom(domain, 8))>>, err |-> NoErr]
    ELSE IF HasPrefix(domain, FullPrefix)
    THEN [mappings |-> <<WithKind(addr, "Full", SliceFrom(domain, 5))>>, err |-> NoErr]
    ELSE IF HasPrefix(domain, ExtPrefix) THEN extMappings(domain, addr)
    ELSE [mappings |-> <<WithKind(addr, "Full", domain)>>, err |-> NoErr]

RECURSIVE StaticHostsLoop(_, _, _)
StaticHostsLoop(domains, i, config) ==
    IF i > Len(domains) THEN Continue(config)
    ELSE LET m == hostMappings(domains[i], c.Hosts[domains[i]])
         IN  IF m.err # NoErr THEN ReturnErr(m.err)
             ELSE StaticHostsLoop(domains, i + 1,
                    [config EXCEPT !.StaticHosts = @ \o m.mappings])

BuildHosts(order, config) ==
    IF DOMAIN c.Hosts # {}
    THEN StaticHostsLoop(sortStrings(order), 1, HostPatternLoop(order, 1, config))
    ELSE Continue(config)

\* The loop over c.Fake.FakeRules: fakeRules is the slice of len(FakeRules)
\* zero strings, n the index i of the code.
RECURSIVE FakeRulesLoop(_, _, _, _)
FakeRulesLoop(k, fakeRules, n, config) ==
    IF k > Len(c.Fake.FakeRules)
    THEN [config EXCEPT !.Fake.FakeRules = SubSeq(fakeRules, 1, n), !.Fake.rulesNil = FALSE]
    ELSE LET newPattern == compressPattern(c.Fake.FakeRules[k])
             loaded == loadExternalRules(newPattern, config)
         IN  IF loaded.err = NoErr
             THEN FakeRulesLoop(k + 1, [fakeRules EXCEPT ![n + 1] = newPattern], n + 1,
                                loaded.config)
             ELSE FakeRulesLoop(k + 1, fakeRules, n, loaded.config)

BuildFakeAllSlots(config) ==
    IF c.Fake.present /\ c.Fake.hasRules
    THEN LET done == FakeRulesLoop(1, [j \in 1..Len(c.Fake.FakeRules) |-> <<>>], 0,
                        [config EXCEPT !.Fake.present = TRUE])
             n == Len(done.Fake.FakeRules)
         IN  Continue([done EXCEPT !.Fake.FakeRules =
                 @ \o [j \in 1..(Len(c.Fake.FakeRules) - n) |-> <<>>]])
    ELSE Continue(config)

BuildFake(config) ==
    IF c.Fake.present
    THEN LET withNet == [config EXCEPT !.Fake =
                 [present |-> TRUE,
                  FakeNet |-> IF c.Fake.FakeNet = "" THEN "224.0.0.0/8" ELSE c.Fake.FakeNet,
                  rulesNil |-> TRUE, FakeRules |-> <<>>]]
         IN  IF c.Fake.hasRules
             THEN Continue(FakeRulesLoop(1, [j \in 1..Len(c.Fake.FakeRules) |-> <<>>], 0, withNet))
             ELSE Continue(withNet)
    ELSE Continue(config)

DnsConfigBuild(order) ==
    LET r1 == BuildClientIP(NewConfig)
    IN  IF r1.err # NoErr THEN r1
        ELSE LET r2 == BuildServers(1, r1.config)
             IN  IF r2.err # NoErr THEN r2
                 ELSE LET r3 == BuildHosts(order, r2.config)
                      IN  IF r3.err # NoErr THEN r3
                          ELSE BuildFake(r3.config)

(***************************************************************************)
(* The inputs the model draws from.                                        *)
(***************************************************************************)
IPAddr == [fam |-> "ip", val |-> "10.0.0.1"]
DomainAddr == [fam |-> "domain", val |-> "proxy.example"]

KeyDomainA == DomainPrefix \o <<"a">>
KeyFullB == FullPrefix \o <<"b">>
KeyKeywordA == KeywordPrefix \o <<"a">>
KeyRegexpA == RegexpPrefix \o <<"a">>
KeyPlainB == <<"b">>
KeyGeoipA == GeoipPrefix \o <<"a">>
KeyGeositeLower == GeositePrefix \o <<"c","n">>
KeyGeositeUpper == GeositePrefix \o <<"C","N">>
KeyGeositeColon == GeositePrefix \o <<"a",":","b">>
KeyExtCN == ExtPrefix \o GeositeFile \o <<":","C","N">>
KeyExtOnePart == ExtPrefix \o <<"x">>

TagCN == <<"C","N">>
TagLowerCN == <<"c","n">>
TagColon == <<"A",":","B">>

\* What the resolver answers for each list it can know.
FullDB ==
    [k \in {<<GeositeFile, TagCN>>, <<GeositeFile, TagLowerCN>>, <<GeositeFile, TagColon>>} |->
        IF k[2] = TagCN
        THEN <<[Type |-> "Domain_Domain", Value |-> <<"c","n">>],
               [Type |-> "Domain_Full", Value |-> <<"b">>]>>
        ELSE IF k[2] = TagLowerCN
        THEN <<[Type |-> "Domain_Plain", Value |-> <<"c">>]>>
        ELSE <<[Type |-> "Domain_Regex", Value |-> <<"a">>]>>]

Restrict(f, S) == [x \in S |-> f[x]]

\* The orders in which a range statement may visit the keys of a map.
Orders(S) ==
    {o \in [1..Cardinality(S) -> S] : \A i, j \in 1..Cardinality(S) : i # j => o[i] # o[j]}

SeqsUpTo(S, n) == UNION {[1..k -> S] : k \in 0..n}

HostMaps(keyPool, addrPool) ==
    UNION {[K -> addrPool] : K \in {K \in SUBSET keyPool : Cardinality(K) <= MaxHosts}}

FakeConfigs(rulePool, nets) ==
    {[present |-> FALSE, FakeNet |-> "", hasRules |-> FALSE, FakeRules |-> <<>>]}
    \cup {[present |-> TRUE, FakeNet |-> n, hasRules |-> FALSE, FakeRules |-> <<>>] : n \in nets}
    \cup {[present |-> TRUE, FakeNet |-> n, hasRules |-> TRUE, FakeRules |-> r] :
            n \in nets, r \in SeqsUpTo(rulePool, MaxFake)}

ServerOK == [Address |-> IPAddr, Port |-> 53, Domains |-> <<"domain:ok">>, ExpectIPs |-> <<"10.0.0.0/8">>]
ServerNoAddress == [ServerOK EXCEPT !.Address = NilAddress]
ServerBadDomain == [ServerOK EXCEPT !.Domains = <<"domain:ok", "regexp:(">>]
ServerBadIP == [ServerOK EXCEPT !.ExpectIPs = <<"not-a-cidr">>]

MatcherIdle ==
    /\ matcher = Full(<<>>)
    /\ candidate = <<>>
    /\ outcome = NotRun

InitBuild(keyPool, addrPool, dbKeys, rulePool, nets, clientPool, serverPool) ==
    /\ MatcherIdle
    /\ geositeDB \in {Restrict(FullDB, K) : K \in SUBSET dbKeys}
    /\ c \in [Servers : SeqsUpTo(serverPool, MaxServers),
              Hosts : HostMaps(keyPool, addrPool),
              ClientIP : clientPool,
              Tag : {"dns"},
              Fake : FakeConfigs(rulePool, nets)]
    /\ ret = NotRun
    /\ prevRet = NotRun

\* One call of DnsConfig.Build on the configuration c; prevRet keeps what the
\* call before it returned.
Build ==
    /\ \E order \in Orders(DOMAIN c.Hosts) :
          ret' = DnsConfigBuild(order)
    /\ prevRet' = ret
    /\ UNCHANGED <<matcher, candidate, outcome, c, geositeDB>>

\* Every section of Build takes part.
Init ==
    InitBuild({KeyDomainA, KeyExtCN, KeyExtOnePart, KeyGeositeColon}, {IPAddr},
              {<<GeositeFile, TagCN>>, <<GeositeFile, TagColon>>},
              {KeyExtOnePart, KeyDomainA}, {""},
              {NilAddress, IPAddr, DomainAddr},
              {ServerOK, ServerNoAddress, ServerBadDomain, ServerBadIP})

Next == Build

Spec == Init /\ [][Next]_vars

\* The static hosts in full; no client IP, name server or fake settings.
InitHosts ==
    InitBuild({KeyDomainA, KeyFullB, KeyKeywordA, KeyRegexpA, KeyPlainB,
               KeyGeositeLower, KeyGeositeColon, KeyExtCN, KeyExtOnePart},
              {IPAddr, DomainAddr},
              DOMAIN FullDB, {}, {}, {NilAddress}, {})

SpecHosts == InitHosts /\ [][Next]_vars

\* The fake-response rules in full, after static hosts that may load lists.
InitFake ==
    InitBuild({KeyDomainA, KeyExtCN, KeyGeositeColon}, {IPAddr},
              {<<GeositeFile, TagCN>>, <<GeositeFile, TagColon>>},
              {KeyDomainA, KeyGeoipA, KeyGeositeUpper, KeyGeositeLower, KeyExtCN, KeyExtOnePart},
              {"", "198.18.0.0/15"}, {NilAddress}, {})

SpecFake == InitFake /\ [][Next]_vars

\* The matcher strategies: a matcher, a candidate string, one call of Match.
Alphabet == {"x", "y", "z"}
DomainAlphabet == {"a", "b", "."}

Atoms == {Full(v) : v \in StringsUpTo(Alphabet, MaxPatLen)}
         \cup {Substring(v) : v \in StringsUpTo(Alphabet, MaxPatLen)}
Literals == Atoms \cup {Not(m) : m \in Atoms}
Combinators == Literals \cup {And(a, b) : a \in Literals, b \in Literals}
                        \cup {Not(And(a, b)) : a \in Atoms, b \in Atoms}

BuildIdle ==
    /\ geositeDB = Restrict(FullDB, {})
    /\ c = [Servers |-> <<>>, Hosts |-> EmptyMap, ClientIP |-> NilAddress, Tag |-> "dns",
            Fake |-> [present |-> FALSE, FakeNet |-> "", hasRules |-> FALSE, FakeRules |-> <<>>]]
    /\ ret = NotRun
    /\ prevRet = NotRun

InitMatch ==
    /\ BuildIdle
    /\ outcome = NotRun
    /\ \/ /\ matcher \in {Domain(p) : p \in StringsUpTo(DomainAlphabet, MaxLen)}
          /\ candidate \in StringsUpTo(DomainAlphabet, MaxLen + 1)
       \/ /\ matcher \in Combinators
          /\ candidate \in StringsUpTo(Alphabet, MaxLen)

DoMatch ==
    /\ outcome = NotRun
    /\ outcome' = Match(matcher, candidate)
    /\ UNCHANGED <<matcher, candidate, c, geositeDB, ret, prevRet>>

NextMatch == DoMatch

SpecMatch == InitMatch /\ [][NextMatch]_vars

(***************************************************************************)
(* The properties.                                                         *)
(***************************************************************************)
Built == ret # NotRun
BuiltOK == ret # NotRun /\ ret.err = NoErr /\ ret.config # NilConfig

ColonCount(s) == Cardinality({i \in 1..Len(s) : s[i] = ":"})

\* arg is "<filename>:<tag>" for a list the resolver knows.
ListKnown(arg) ==
    /\ ColonCount(arg) = 1
    /\ \E k \in DOMAIN geositeDB : arg = k[1] \o <<":">> \o k[2]

ListOf(arg) == geositeDB[CHOOSE k \in DOMAIN geositeDB : arg = k[1] \o <<":">> \o k[2]]

IsExternal(cp) == cp # <<>> /\ cp[1] = "e"

Resolves(cp) == ~IsExternal(cp) \/ ListKnown(Tail(cp))

\* The static-host reference of a key resolves (direct keys always do).
StaticResolves(key) ==
    IF HasPrefix(key, GeositePrefix)
    THEN <<GeositeFile, ToUpper(SliceFrom(key, 8))>> \in DOMAIN geositeDB
    ELSE IF HasPrefix(key, ExtPrefix) THEN ListKnown(SliceFrom(key, 4))
    ELSE TRUE

ClientOK == c.ClientIP.fam \in {"nil", "ip"}
ServersOK == \A i \in 1..Len(c.Servers) : c.Servers[i] = ServerOK
HostsResolve == \A key \in DOMAIN c.Hosts : StaticResolves(key)

TargetOf(m) ==
    IF m.Ip # <<>> THEN [fam |-> "ip", val |-> m.Ip[1]]
    ELSE [fam |-> "domain", val |-> m.ProxiedDomain]

EndsWithDot(d, p) == \E k \in 0..Len(d) : d = SubSeq(d, 1, k) \o <<".">> \o p

\* C1: for every candidate d and subdomain pattern p, domainMatcher(p).Match(d)
\* is true if and only if d = p or d ends with "." followed by p.
C1_SubdomainMatch ==
    (outcome # NotRun /\ matcher[1] = "domain") =>
        (outcome.res <=> (candidate = matcher[2] \/ EndsWithDot(candidate, matcher[2])))

C1_Witness ==
    /\ outcome # NotRun
    /\ matcher = Domain(<<"a">>)
    /\ candidate = <<"a", ".", "a">>
    /\ outcome.res

CompressedAsSpecified(p) ==
    IF HasPrefix(p, DomainPrefix) THEN <<"d">> \o SliceFrom(p, Len(DomainPrefix))
    ELSE IF HasPrefix(p, FullPrefix) THEN <<"f">> \o SliceFrom(p, Len(FullPrefix))
    ELSE IF HasPrefix(p, KeywordPrefix) THEN <<"k">> \o SliceFrom(p, Len(KeywordPrefix))
    ELSE IF HasPrefix(p, RegexpPrefix) THEN <<"r">> \o SliceFrom(p, Len(RegexpPrefix))
    ELSE IF HasPrefix(p, GeoipPrefix) THEN <<"i">> \o SliceFrom(p, Len(GeoipPrefix))
    ELSE IF HasPrefix(p, ExtPrefix) THEN <<"e">> \o SliceFrom(p, Len(ExtPrefix))
    ELSE IF HasPrefix(p, GeositePrefix)
    THEN <<"e">> \o GeositeFile \o <<":">> \o ToUpper(SliceFrom(p, Len(GeositePrefix)))
    ELSE <<"f">> \o p

\* C2: compressPattern is a function of the pattern alone, whatever order the
\* prefix table is ranged over: a recognized prefix is replaced by its letter
\* (domain: d, full: f, keyword: k, regexp: r, geoip: i, ext: e), geosite:<tag>
\* becomes "egeosite.dat:" followed by the upper-cased tag, and an unprefixed
\* pattern becomes "f" followed by the pattern.
C2_CompressAsSpecified ==
    Built => \A p \in (DOMAIN c.Hosts) \cup Range(c.Fake.FakeRules) :
                compressOutcomes(p) = {CompressedAsSpecified(p)}

CompressedFakeRules ==
    [i \in 1..Len(c.Fake.FakeRules) |-> compressPattern(c.Fake.FakeRules[i])]

\* C3: when nothing before the fake section aborts the build, the build
\* succeeds and Fake.FakeRules is the input-order subsequence of the compressed
\* fake rules that are not external references or whose list resolved; the
\* others are dropped, leaving no empty slot.
C3_FakeRulesFiltered ==
    (Built /\ ClientOK /\ ServersOK /\ HostsResolve) =>
        /\ BuiltOK
        /\ (c.Fake.present /\ c.Fake.hasRules) =>
              ret.config.Fake.FakeRules = SelectSeq(CompressedFakeRules, Resolves)

C3_Witness ==
    /\ BuiltOK
    /\ c.Fake.hasRules
    /\ c.Fake.FakeRules = <<KeyExtOnePart, KeyExtCN>>
    /\ ret.config.Fake.FakeRules = <<<<"e">> \o GeositeFile \o <<":", "C", "N">>>>

MalformedExt(key) == HasPrefix(key, ExtPrefix) /\ ColonCount(SliceFrom(key, 4)) # 1

MalformedKeys == {key \in DOMAIN c.Hosts : MalformedExt(key)}

\* C4 as stated: whenever a host key is an ext: pattern whose argument does not
\* split into exactly a filename and a tag, Build returns the
\* invalid-external-reference error and no config, whatever the other host
\* keys are (the client IP and the name servers being valid).
C4_Original ==
    (Built /\ ClientOK /\ ServersOK /\ MalformedKeys # {}) =>
        (ret.err = ErrInvalidExternalResource /\ ret.config = NilConfig)

EarlierKeysResolve ==
    \A key \in DOMAIN c.Hosts :
        (\A m \in MalformedKeys : StrLess(key, m)) => StaticResolves(key)

\* C4 amended: with such a key among the hosts, Build returns an error and no
\* config in whatever order the map is ranged over; the error is the
\* invalid-external-reference error when the client IP and the name servers are
\* valid and every key that sorts before all malformed ext: keys resolves.
C4_MalformedExtAborts ==
    (Built /\ MalformedKeys # {}) =>
        /\ ret.err # NoErr
        /\ ret.config = NilConfig
        /\ (ClientOK /\ ServersOK /\ EarlierKeysResolve) =>
              ret.err = ErrInvalidExternalResource

C4_Witness ==
    /\ Built
    /\ DOMAIN c.Hosts = {KeyDomainA, KeyExtOnePart}
    /\ ret.err = ErrInvalidExternalResource
    /\ ret.config = NilConfig

IsListKey(key) == HasPrefix(key, GeositePrefix) \/ HasPrefix(key, ExtPrefix)

DirectKind(key) ==
    IF HasPrefix(key, DomainPrefix) THEN "Subdomain"
    ELSE IF HasPrefix(key, KeywordPrefix) THEN "Keyword"
    ELSE IF HasPrefix(key, RegexpPrefix) THEN "Regex"
    ELSE "Full"

DirectValue(key) ==
    IF HasPrefix(key, DomainPrefix) THEN SliceFrom(key, Len(DomainPrefix))
    ELSE IF HasPrefix(key, KeywordPrefix) THEN SliceFrom(key, Len(KeywordPrefix))
    ELSE IF HasPrefix(key, RegexpPrefix) THEN SliceFrom(key, Len(RegexpPrefix))
    ELSE IF HasPrefix(key, FullPrefix) THEN SliceFrom(key, Len(FullPrefix))
    ELSE key

\* The number of mappings a key contributes.
Share(key) ==
    IF HasPrefix(key, GeositePrefix)
    THEN Len(geositeDB[<<GeositeFile, ToUpper(SliceFrom(key, 8))>>])
    ELSE IF HasPrefix(key, ExtPrefix) THEN Len(ListOf(SliceFrom(key, 4)))
    ELSE 1

RECURSIVE SumShares(_)
SumShares(S) ==
    IF S = {} THEN 0
    ELSE LET k == CHOOSE x \in S : TRUE IN Share(k) + SumShares(S \ {k})

\* The mappings of key start after those of all the smaller keys.
Offset(key) == SumShares({k \in DOMAIN c.Hosts : StrLess(k, key)})

\* C5: after a successful Build, StaticHosts lists the mappings key by key in
\* the lexicographic order of the textual keys; each direct key (domain:,
\* full:, keyword:, regexp: or unprefixed) contributes exactly one mapping
\* with the kind of its prefix, the prefix-stripped value and the key's own
\* target, and every mapping of a smaller key precedes those of a larger key.
C5_StaticHostsSorted ==
    BuiltOK =>
        LET sh == ret.config.StaticHosts
        IN  /\ Len(sh) = SumShares(DOMAIN c.Hosts)
            /\ \A key \in DOMAIN c.Hosts :
                  /\ \A i \in (Offset(key) + 1)..(Offset(key) + Share(key)) :
                        TargetOf(sh[i]) = c.Hosts[key]
                  /\ ~IsListKey(key) =>
                        /\ sh[Offset(key) + 1].Type = DirectKind(key)
                        /\ sh[Offset(key) + 1].Pattern = DirectValue(key)

C5_Witness ==
    /\ BuiltOK
    /\ DOMAIN c.Hosts = {KeyDomainA, KeyFullB}
    /\ c.Hosts[KeyDomainA] = IPAddr
    /\ c.Hosts[KeyFullB] = DomainAddr
    /\ ret.config.StaticHosts =
          <<[Type |-> "Subdomain", Pattern |-> <<"a">>, Ip |-> <<"10.0.0.1">>, ProxiedDomain |-> ""],
            [Type |-> "Full", Pattern |-> <<"b">>, Ip |-> <<>>, ProxiedDomain |-> "proxy.example"]>>

\* C6: two runs of Build on the same input and the same resolver answers
\* return the same output in every field, the order of HostRules included,
\* whatever the order in which the hosts map is ranged over.
C6_Deterministic == (ret # NotRun /\ prevRet # NotRun) => ret = prevRet

HostRuleLoadFails(key) ==
    loadExternalRules(compressPattern(key), NewConfig).err # NoErr

\* C7: Build returns either a config and no error or an error and no config;
\* a non-IP client IP, a name server that fails to build and a static-host
\* list reference that fails to resolve each abort it, and the only failures
\* that do not abort it are fake-rule resolution failures.
C7_AllOrNothing ==
    Built =>
        /\ (ret.err = NoErr) <=> (ret.config # NilConfig)
        /\ (~ClientOK \/ ~ServersOK \/ ~HostsResolve) => ret.err # NoErr
        /\ ret.err = NoErr => \A key \in DOMAIN c.Hosts : ~HostRuleLoadFails(key)

\* C9: after a successful Build, HostRules holds, for each key of the hosts
\* map, exactly one mapping with that key's target and that key's compressed
\* form, whether or not the key's external rules loaded.
C9_EveryKeyRecorded ==
    BuiltOK =>
        LET hr == ret.config.HostRules
        IN  /\ Len(hr) = Cardinality(DOMAIN c.Hosts)
            /\ \E order \in Orders(DOMAIN c.Hosts) :
                  \A i \in 1..Len(hr) :
                      /\ hr[i].Pattern = compressPattern(order[i])
                      /\ TargetOf(hr[i]) = c.Hosts[order[i]]

KindLetter(t) ==
    CASE t = "Domain_Full" -> "f"
      [] t = "Domain_Domain" -> "d"
      [] t = "Domain_Plain" -> "k"
      [] t = "Domain_Regex" -> "r"

Coded(list) == [i \in 1..Len(list) |-> <<KindLetter(list[i].Type)>> \o list[i].Value]

RecordedPatterns ==
    {ret.config.HostRules[i].Pattern : i \in 1..Len(ret.config.HostRules)}
    \cup Range(ret.config.Fake.FakeRules)

\* C10: after a successful Build, every compressed pattern beginning with "e"
\* in HostRules or Fake.FakeRules has an ExternalRules entry keyed by the
\* pattern without its "e", holding the resolver's list for that filename and
\* tag in the resolver's order, each entry as kind letter (f, d, k, r) then
\* value; spellings with one compressed form share one entry, and nothing
\* else puts an entry into ExternalRules.
C10_ExternalRulesIndex ==
    BuiltOK =>
        /\ \A cp \in RecordedPatterns :
              IsExternal(cp) =>
                  /\ Tail(cp) \in DOMAIN ret.config.ExternalRules
                  /\ ListKnown(Tail(cp))
                  /\ ret.config.ExternalRules[Tail(cp)] = Coded(ListOf(Tail(cp)))
        /\ \A key \in DOMAIN ret.config.ExternalRules :
              \E cp \in RecordedPatterns : IsExternal(cp) /\ Tail(cp) = key

C10_Witness ==
    /\ BuiltOK
    /\ c.Fake.FakeRules = <<KeyGeositeUpper, KeyExtCN>>
    /\ KeyExtCN \in DOMAIN c.Hosts
    /\ Len(ret.config.HostRules) = Cardinality(DOMAIN c.Hosts)
    /\ Len(ret.config.Fake.FakeRules) = 2
    /\ DOMAIN ret.config.ExternalRules = {GeositeFile \o <<":", "C", "N">>}
    /\ ret.config.ExternalRules[GeositeFile \o <<":", "C", "N">>] =
          <<<<"d", "c", "n">>, <<"f", "b">>>>

OccursIn(v, s) == \E i, j \in 0..Len(s) : i <= j /\ SubSeq(s, i + 1, j) = v

RECURSIVE Denotes(_, _)
Denotes(m, s) ==
    CASE m[1] = "full" -> s = m[2]
      [] m[1] = "substr" -> OccursIn(m[2], s)
      [] m[1] = "domain" -> s = m[2] \/ EndsWithDot(s, m[2])
      [] m[1] = "not" -> ~Denotes(m[2], s)
      [] m[1] = "and" -> Denotes(m[2], s) /\ Denotes(m[3], s)

\* The leaf matchers that run, in order, under short-circuit evaluation.
RECURSIVE Evaluated(_, _)
Evaluated(m, s) ==
    CASE m[1] \in {"full", "substr", "domain"} -> <<m>>
      [] m[1] = "not" -> Evaluated(m[2], s)
      [] m[1] = "and" -> IF Denotes(m[2], s)
                         THEN Evaluated(m[2], s) \o Evaluated(m[3], s)
                         ELSE Evaluated(m[2], s)

ExampleXY == And(Full(<<"x", "y">>), Not(Substring(<<"z">>)))

\* C8: Not(m) matches exactly when m does not; And(a, b) matches exactly when
\* both do, a is evaluated first and b is not evaluated when a is false;
\* Full(v) matches s = v and Substring(v) matches when v occurs in s; so
\* And(Full("xy"), Not(Substring("z"))) matches "xy" and no other string.
C8_Combinators ==
    (outcome # NotRun /\ matcher[1] # "domain") =>
        /\ outcome.res <=> Denotes(matcher, candidate)
        /\ outcome.calls = Evaluated(matcher, candidate)
        /\ matcher = ExampleXY => (outcome.res <=> candidate = <<"x", "y">>)

C8_Witness ==
    /\ outcome # NotRun
    /\ matcher = ExampleXY
    /\ candidate = <<"x", "y">>
    /\ outcome.res
    /\ outcome.calls = <<Full(<<"x", "y">>), Substring(<<"z">>)>>


====
